---------------------------- MODULE Spec2Model ----------------------------
(***************************************************************************)
(* Model of nouhin.py: extraction of the delivery sheet from an inventory  *)
(* workbook.  Four specifications share the variables below:               *)
(*   SpecSort   - sort_final applied to bounded tables                     *)
(*   SpecFilter - the zero-filter of prepare applied to bounded tables     *)
(*   SpecSheet  - paste_df / write_out applied to bounded worksheets       *)
(*   Spec       - prepare invocations against a filesystem namespace       *)
(* Text is modelled as sequences of Unicode code points, so that string    *)
(* conversion and lexicographic comparison are computed, not assumed.      *)
(***************************************************************************)
EXTENDS Integers, Sequences, FiniteSets, TLC

VARIABLES
    df,        \* table handed to the function under test (sequence of rows)
    out,       \* table returned by it
    stage,     \* position of the table/sheet specifications
    ws0,       \* worksheet before paste_df / write_out
    ws,        \* worksheet after
    nrows,     \* len(df) of the table written by paste_df / write_out
    fs,        \* filesystem namespace: name -> file
    call       \* record of the last prepare invocation

vars == <<df, out, stage, ws0, ws, nrows, fs, call>>

-----------------------------------------------------------------------------
(* Bounds of the model *)

MaxRows == 3
MaxPrev == 3

-----------------------------------------------------------------------------
(* Text helpers *)

\* code points of the characters the program tests for
BoxChar == 31665
FilledSquare == 9632
HollowSquare == 9633
Space == 32
DigitZero == 48

\* the single element of a one-element set
The(S) == CHOOSE x \in S : TRUE

RECURSIVE Digits(_)
Digits(n) == IF n < 10 THEN <<DigitZero + n>>
             ELSE Append(Digits(n \div 10), DigitZero + (n % 10))

\* str.strip(): whitespace at both ends is dropped; the tables drawn hold
\* the space character as their only whitespace
RECURSIVE LStrip(_)
LStrip(s) == IF s # <<>> /\ Head(s) = Space THEN LStrip(Tail(s)) ELSE s

RECURSIVE RStrip(_)
RStrip(s) == IF s # <<>> /\ s[Len(s)] = Space
             THEN RStrip(SubSeq(s, 1, Len(s) - 1)) ELSE s

Strip(s) == RStrip(LStrip(s))

RECURSIVE LexLess(_, _)
LexLess(a, b) ==
    IF b = <<>> THEN FALSE
    ELSE IF a = <<>> THEN TRUE
    ELSE IF Head(a) # Head(b) THEN Head(a) < Head(b)
    ELSE LexLess(Tail(a), Tail(b))

-----------------------------------------------------------------------------
(* Dataframe cells: NaN, a number, or a string *)

NaN == [k |-> "nan", n |-> 0, s |-> <<>>]
Num(x) == [k |-> "num", n |-> x, s |-> <<>>]
Str(t) == [k |-> "str", n |-> 0, s |-> t]

\* Series.astype(str): str(value); NaN becomes the text "nan"
AsTypeStr(c) == IF c.k = "str" THEN c.s
                ELSE IF c.k = "num" THEN Digits(c.n)
                ELSE <<110, 97, 110>>

\* Series.fillna('')
FillNaEmpty(c) == IF c.k = "nan" THEN Str(<<>>) ELSE c

\* Series.str[0]: the first character, missing for an empty string
StrFirst(t) == IF t = <<>> THEN <<>> ELSE <<t[1]>>

\* positional fields of an extracted row (1-based; iloc index + 1)
CodePos == 1
NamePos == 2
FlagPos == 9

-----------------------------------------------------------------------------
(* Column letters: openpyxl.utils get_column_letter / column_index_from_string *)

DATA_START_ROW_DST == 5

\* "A", "B", "AN", "AQ" as code points
FIXED_COLS == << <<65>>, <<66>>, <<65, 78>>, <<65, 81>> >>

\* weekday -> (first, last) column letters: H M R W AB AG AL
WEEKDAY_RANGE ==
    [wd \in 0..5 |->
        CASE wd = 0 -> << <<72>>, <<77>> >>
          [] wd = 1 -> << <<77>>, <<82>> >>
          [] wd = 2 -> << <<82>>, <<87>> >>
          [] wd = 3 -> << <<87>>, <<65, 66>> >>
          [] wd = 4 -> << <<65, 66>>, <<65, 71>> >>
          [] wd = 5 -> << <<65, 71>>, <<65, 76>> >>]

RECURSIVE column_index_from_string(_)
column_index_from_string(t) ==
    IF t = <<>> THEN 0
    ELSE 26 * column_index_from_string(SubSeq(t, 1, Len(t) - 1)) + (t[Len(t)] - 64)

RECURSIVE get_column_letter(_)
get_column_letter(i) ==
    IF i <= 0 THEN <<>>
    ELSE LET rem == IF i % 26 = 0 THEN 26 ELSE i % 26
             quo == IF i % 26 = 0 THEN (i \div 26) - 1 ELSE i \div 26
         IN Append(get_column_letter(quo), rem + 64)

\* range(index(a), index(b)): the end column is left out
col_range_HalfOpen(a, b) ==
    [i \in 1..(column_index_from_string(b) - column_index_from_string(a)) |->
        get_column_letter(column_index_from_string(a) + i - 1)]

\* range(index(a), index(b) + 1): both ends included
col_range(a, b) ==
    [i \in 1..(column_index_from_string(b) - column_index_from_string(a) + 1) |->
        get_column_letter(column_index_from_string(a) + i - 1)]

\* letters = FIXED_COLS + col_range(*WEEKDAY_RANGE[weekday])
Letters(wd) == FIXED_COLS \o col_range(WEEKDAY_RANGE[wd][1], WEEKDAY_RANGE[wd][2])

\* width of the table load_df returns: one column per selected letter
NumCols == Len(Letters(0))

-----------------------------------------------------------------------------
(* sort_final *)

Rank(row) == IF Strip(AsTypeStr(FillNaEmpty(row[FlagPos]))) = <<BoxChar>> THEN 3 ELSE 2

Pref(row) == StrFirst(AsTypeStr(row[NamePos]))

Sub1(row) ==
    LET sel == IF Rank(row) = 2 /\ Pref(row) = <<FilledSquare>> THEN 0
               ELSE IF Rank(row) = 2 /\ Pref(row) = <<HollowSquare>> THEN 1
               ELSE 2
    IN IF Rank(row) = 3 THEN 3 ELSE sel

Sub2(row) == IF Sub1(row) >= 1 THEN AsTypeStr(row[CodePos]) ELSE <<>>

\* sort_values(['_r','_s1','_s2'], ascending=[False, True, True]):
\* strict "comes before" on the three keys
KeyBefore(a, b) ==
    \/ Rank(a) > Rank(b)
    \/ Rank(a) = Rank(b) /\ Sub1(a) < Sub1(b)
    \/ Rank(a) = Rank(b) /\ Sub1(a) = Sub1(b) /\ LexLess(Sub2(a), Sub2(b))

\* a merge that prefers the right run on ties (not stable)
RECURSIVE Merge_Unstable(_, _)
Merge_Unstable(l, r) ==
    IF l = <<>> THEN r
    ELSE IF r = <<>> THEN l
    ELSE IF ~KeyBefore(Head(l), Head(r)) THEN <<Head(r)>> \o Merge_Unstable(l, Tail(r))
    ELSE <<Head(l)>> \o Merge_Unstable(Tail(l), r)

\* stable merge: the right element is taken only when strictly before
RECURSIVE Merge(_, _)
Merge(l, r) ==
    IF l = <<>> THEN r
    ELSE IF r = <<>> THEN l
    ELSE IF KeyBefore(Head(r), Head(l)) THEN <<Head(r)>> \o Merge(l, Tail(r))
    ELSE <<Head(l)>> \o Merge(Tail(l), r)

RECURSIVE MergeSort(_)
MergeSort(t) ==
    IF Len(t) <= 1 THEN t
    ELSE LET h == Len(t) \div 2
         IN Merge(MergeSort(SubSeq(t, 1, h)), MergeSort(SubSeq(t, h + 1, Len(t))))

sort_final(t) == MergeSort(t)

-----------------------------------------------------------------------------
(* the zero-filter of prepare: df[~((df.iloc[:, 4] == 0) & (df.iloc[:, 6] == 0))] *)

ZeroPosA == 5
ZeroPosB == 7

\* elementwise `== 0`: true of the number zero only (NaN == 0 is False)
EqZero(c) == c.k = "num" /\ c.n = 0

Excluded_EitherZero(row) == EqZero(row[ZeroPosA]) \/ EqZero(row[ZeroPosB])

Excluded(row) == EqZero(row[ZeroPosA]) /\ EqZero(row[ZeroPosB])

\* boolean-mask indexing keeps the index label of every surviving row
RECURSIVE MaskFrom(_, _)
MaskFrom(t, i) ==
    IF i > Len(t) THEN <<>>
    ELSE IF Excluded(t[i]) THEN MaskFrom(t, i + 1)
    ELSE <<[idx |-> i, row |-> t[i]]>> \o MaskFrom(t, i + 1)

zero_filter(t) == MaskFrom(t, 1)

-----------------------------------------------------------------------------
(* Tables the table specifications draw from *)

MkRow(code, name, flag, a, b) ==
    <<Num(code), name, Num(1), NaN, a, Num(1), b, Num(0), flag, Num(1)>>

NameFilled == Str(<<FilledSquare, 97>>)
NameHollow == Str(<<HollowSquare, 97>>)
NamePlain == Str(<<97, FilledSquare>>)
FlagBox == Str(<<BoxChar>>)
FlagBoxPadded == Str(<<Space, BoxChar, Space>>)
FlagPiece == Str(<<12371>>)

SortRows ==
    { MkRow(c, n, f, Num(1), Num(0)) :
        c \in {2, 10}, n \in {NameFilled, NameHollow, NamePlain}, f \in {FlagBox, FlagPiece} }
    \cup { MkRow(2, NamePlain, FlagBoxPadded, Num(1), Num(0)),
           MkRow(10, NameFilled, NaN, Num(1), Num(0)),
           MkRow(2, NaN, FlagPiece, Num(1), Num(0)),
           MkRow(10, Str(<<>>), FlagPiece, Num(1), Num(0)) }

FilterRows ==
    { MkRow(2, n, f, a, b) :
        n \in {NamePlain}, f \in {FlagBox, FlagPiece},
        a \in {Num(0), Num(1), NaN}, b \in {Num(0), Num(1), NaN} }

Tables(rows) == UNION { [1..n -> rows] : n \in 0..MaxRows }

NoSheet == <<>>
NoCall == [op |-> "none"]
NoFs == <<>>

-----------------------------------------------------------------------------
(* SpecSort: sort_final applied to every bounded table *)

InitSort ==
    /\ df \in Tables(SortRows)
    /\ out = <<>>
    /\ stage = "input"
    /\ ws0 = NoSheet /\ ws = NoSheet /\ nrows = 0
    /\ fs = NoFs /\ call = NoCall

SortFinal ==
    /\ stage = "input"
    /\ out' = sort_final(df)
    /\ stage' = "sorted"
    /\ UNCHANGED <<df, ws0, ws, nrows, fs, call>>

NextSort == SortFinal

SpecSort == InitSort /\ [][NextSort]_vars

-----------------------------------------------------------------------------
(* SpecFilter: the zero-filter applied to every bounded table *)

InitFilter ==
    /\ df \in Tables(FilterRows)
    /\ out = <<>>
    /\ stage = "input"
    /\ ws0 = NoSheet /\ ws = NoSheet /\ nrows = 0
    /\ fs = NoFs /\ call = NoCall

ZeroFilter ==
    /\ stage = "input"
    /\ out' = zero_filter(df)
    /\ stage' = "filtered"
    /\ UNCHANGED <<df, ws0, ws, nrows, fs, call>>

NextFilter == ZeroFilter

SpecFilter == InitFilter /\ [][NextFilter]_vars

-----------------------------------------------------------------------------
(* Worksheets (openpyxl): a grid of cells that exist or not, row heights,   *)
(* page setup and print area                                               *)

PrintLastCol == 13
FormulaColK == 11
FormulaColM == 13

ColCap == PrintLastCol + 1
RowCap == DATA_START_ROW_DST + (IF MaxPrev > MaxRows THEN MaxPrev ELSE MaxRows)

Rows == 1..RowCap
Cols == 1..ColCap

Val(t, r) == [t |-> t, r |-> r]
None == Val("none", 0)

NoCell == [ex |-> FALSE, v |-> None, st |-> "default"]
StaleCell == [ex |-> TRUE, v |-> Val("old", 0), st |-> "old"]

\* ws.max_row / ws.max_column: the largest row / column holding a cell
Max(S) == CHOOSE x \in S : \A y \in S : y <= x
max_row(w) == Max({1} \cup { r \in Rows : \E c \in Cols : w.cells[r][c].ex })
max_column(w) == Max({1} \cup { c \in Cols : \E r \in Rows : w.cells[r][c].ex })

\* ws.insert_rows(idx, amount): cells at rows >= idx move down by amount
insert_rows(w, idx, amount) ==
    [w EXCEPT !.cells =
        [r \in Rows |->
            IF r >= idx + amount THEN w.cells[r - amount]
            ELSE IF r >= idx THEN [c \in Cols |-> NoCell]
            ELSE w.cells[r]]]

\* the body of clear_from_row's loops for the range row..mr, 1..mc
ClearRect(w, row, mr, mc, resetHeight) ==
    [w EXCEPT
       !.height = [r \in Rows |->
                     IF resetHeight /\ r >= row /\ r <= mr THEN "none" ELSE w.height[r]],
       !.cells = [r \in Rows |-> [c \in Cols |->
                     IF r >= row /\ r <= mr /\ c <= mc
                     THEN [ex |-> TRUE, v |-> None, st |-> "cleared"]
                     ELSE w.cells[r][c]]]]

\* clear_from_row that starts one row too low
clear_from_row_OffByOne(w, row) ==
    The({ ClearRect(w, row + 1, mr, mc, TRUE) :
            mr \in {max_row(w)}, mc \in {max_column(w)} })

\* for r in row..max_row: height = None; for c in 1..max_column: ws.cell(r, c)
\* is created if missing and loses value, font, border, fill, format, alignment
clear_from_row(w, row) ==
    The({ ClearRect(w, row, mr, mc, TRUE) :
            mr \in {max_row(w)}, mc \in {max_column(w)} })

\* copy_style_row(ws, src, dst): both cells of every column up to
\* max_column are created if missing; dst takes the style of src
copy_style_row(w, src, dst) ==
    The({ [w EXCEPT
             !.cells = [r \in Rows |-> [c \in Cols |->
                           IF c <= mc /\ r = dst
                           THEN [ex |-> TRUE, v |-> w.cells[r][c].v,
                                 st |-> w.cells[src][c].st]
                           ELSE IF c <= mc /\ r = src
                           THEN [w.cells[r][c] EXCEPT !.ex = TRUE]
                           ELSE w.cells[r][c]]]] :
            mc \in {max_column(w)} })

\* for i in range(need_rows): height = base_h; copy_style_row(ws, start, start + i)
RECURSIVE StyleRows(_, _, _, _, _)
StyleRows(w, start, i, n, base_h) ==
    IF i >= n THEN w
    ELSE The({ StyleRows(w1, start, i + 1, n, base_h) :
                 w1 \in {copy_style_row([w EXCEPT !.height[start + i] = base_h],
                                        start, start + i)} })

\* the value loop: ws.cell(row=ridx, column=cidx, value=val) for every
\* table cell, the table being n rows of NumCols columns
WriteValues(w, start, n) ==
    [w EXCEPT
       !.cells = [r \in Rows |-> [c \in Cols |->
                     IF r >= start /\ r < start + n /\ c <= NumCols
                     THEN [ex |-> TRUE, v |-> Val("new", r - start + 1),
                           st |-> w.cells[r][c].st]
                     ELSE w.cells[r][c]]]]

\* the rows paste_df inserts: none unless the table is longer than the sheet
GrowRows(w, n, start, mr) ==
    IF n > mr - start + 1 THEN insert_rows(w, mr + 1, n - (mr - start + 1)) ELSE w

paste_df(w, n, start) ==
    The({ clear_from_row(w3, start + n) :
            w3 \in { WriteValues(w2, start, n) :
                       w2 \in { StyleRows(w1, start, 0, n, w.height[start]) :
                                  w1 \in { GrowRows(w, n, start, mr) :
                                             mr \in {max_row(w)} } } } })

\* the formula loop of write_out: K{r} and M{r} for every written row
WriteFormulas(w, n) ==
    [w EXCEPT
       !.cells = [r \in Rows |-> [c \in Cols |->
                     IF r >= DATA_START_ROW_DST /\ r < DATA_START_ROW_DST + n
                        /\ c \in {FormulaColK, FormulaColM}
                     THEN [ex |-> TRUE,
                           v |-> Val(IF c = FormulaColK THEN "=C-E+G" ELSE "=IF", r),
                           st |-> w.cells[r][c].st]
                     ELSE w.cells[r][c]]]]

\* last_row taken from the sheet's end instead of the table's length
last_row_SheetEnd(w, n) == max_row(w)

last_row(w, n) == DATA_START_ROW_DST + n - 1

\* write_out on the destination sheet of the duplicate
write_sheet(w, n) ==
    The({ [w2 EXCEPT
             !.page = [orientation |-> "portrait", fitToWidth |-> 1,
                       margins |-> "0.4/0.4/0.3/0.3", horizontalCentered |-> TRUE],
             !.print_area = [c1 |-> 1, r1 |-> 1, c2 |-> PrintLastCol,
                             r2 |-> last_row(w2, n)]] :
            w2 \in { WriteFormulas(w1, n) :
                       w1 \in {paste_df(w, n, DATA_START_ROW_DST)} } })

-----------------------------------------------------------------------------
(* SpecSheet: paste_df and write_out applied to bounded template sheets *)

HeaderRow == DATA_START_ROW_DST - 1
StaleRows == DATA_START_ROW_DST .. (DATA_START_ROW_DST + MaxPrev - 1)
StaleCols == {1, ColCap}

\* a template sheet: a header row of hw columns, stale cells at S, stale
\* row heights down to row hEnd, print area through the historical end
Template(hw, S, hEnd) ==
    LET cells == [r \in Rows |-> [c \in Cols |->
                    IF r = HeaderRow /\ c <= hw
                    THEN [ex |-> TRUE, v |-> Val("header", 0), st |-> "header"]
                    ELSE IF <<r, c>> \in S THEN StaleCell
                    ELSE NoCell]]
    IN [cells |-> cells,
        height |-> [r \in Rows |->
                      IF r >= DATA_START_ROW_DST /\ r <= hEnd THEN "old" ELSE "none"],
        page |-> [orientation |-> "landscape", fitToWidth |-> 0,
                  margins |-> "default", horizontalCentered |-> FALSE],
        print_area |-> [c1 |-> 1, r1 |-> 1, c2 |-> PrintLastCol,
                        r2 |-> max_row([cells |-> cells])]]

InitSheet ==
    /\ \E hw \in {NumCols, PrintLastCol}, S \in SUBSET (StaleRows \X StaleCols),
          hEnd \in {HeaderRow, DATA_START_ROW_DST, DATA_START_ROW_DST + MaxPrev} :
          ws0 = Template(hw, S, hEnd)
    /\ ws = ws0
    /\ nrows \in 0..MaxRows
    /\ stage = "template"
    /\ df = <<>> /\ out = <<>>
    /\ fs = NoFs /\ call = NoCall

PasteDf ==
    /\ stage = "template"
    /\ ws' = paste_df(ws0, nrows, DATA_START_ROW_DST)
    /\ stage' = "pasted"
    /\ UNCHANGED <<df, out, ws0, nrows, fs, call>>

WriteOutSheet ==
    /\ stage = "template"
    /\ ws' = write_sheet(ws0, nrows)
    /\ stage' = "written"
    /\ UNCHANGED <<df, out, ws0, nrows, fs, call>>

NextSheet == PasteDf \/ WriteOutSheet

SpecSheet == InitSheet /\ [][NextSheet]_vars

-----------------------------------------------------------------------------
(* Delivery dates: datetime.strptime(delivery_date, "%Y-%m-%d").weekday() *)

IsLeap(y) == y % 4 = 0 /\ (y % 100 # 0 \/ y % 400 = 0)

DaysBeforeYear(y) ==
    (y - 1) * 365 + ((y - 1) \div 4) - ((y - 1) \div 100) + ((y - 1) \div 400)

DaysInMonth(y, m) ==
    IF m = 2 THEN (IF IsLeap(y) THEN 29 ELSE 28)
    ELSE IF m \in {4, 6, 9, 11} THEN 30 ELSE 31

RECURSIVE DaysBeforeMonth(_, _)
DaysBeforeMonth(y, m) ==
    IF m = 1 THEN 0 ELSE DaysBeforeMonth(y, m - 1) + DaysInMonth(y, m - 1)

ToOrdinal(d) == DaysBeforeYear(d[1]) + DaysBeforeMonth(d[1], d[2]) + d[3]

\* Monday is 0, Sunday is 6
weekday(d) == (ToOrdinal(d) + 6) % 7

\* the delivery dates drawn: a week across the end of a leap February,
\* the date of the module's docstring, and another Sunday
Dates == { <<2024, 2, 26>>, <<2024, 2, 27>>, <<2024, 2, 28>>, <<2024, 2, 29>>,
           <<2024, 3, 1>>, <<2024, 3, 2>>, <<2024, 3, 3>>,
           <<2025, 7, 2>>, <<2026, 11, 1>> }

-----------------------------------------------------------------------------
(* Paths: a file name is a sequence of tokens, the last one its suffix     *)
(* when it starts with a dot                                               *)

\* safe_copy tries the suffixes range(1, 100); the model tries 1..MaxSuffix
MaxSuffix == 3

Suffixes == {".xlsm", ".xls"}

\* Path.stem: the name without its last suffix
Stem(name) ==
    IF Len(name) > 1 /\ name[Len(name)] \in Suffixes
    THEN SubSeq(name, 1, Len(name) - 1) ELSE name

\* src.with_name(src.stem + "_prepared.xlsm")
BaseName(src) == Stem(src) \o <<"_prepared", ".xlsm">>

\* src.with_name(f"{src.stem}_prepared({i}).xlsm")
CandName(src, i) == Stem(src) \o <<"_prepared", "(" \o ToString(i) \o ")", ".xlsm">>

SrcNames == { <<"foo", ".xlsm">>, <<"foo", ".xls">> }

OutNames == { BaseName(s) : s \in SrcNames }
            \cup { CandName(s, i) : s \in SrcNames, i \in 1..MaxSuffix }

Names == SrcNames \cup OutNames

NoPath == <<>>

NoFile == [ex |-> FALSE, locked |-> FALSE, content |-> "none"]

\* shutil.copyfile(src, dst): "same" for SameFileError, "denied" for
\* PermissionError (dst is held open by another process), else "copied"
CopyOutcome(f, src, dst) ==
    IF src = dst THEN "same"
    ELSE IF f[dst].ex /\ f[dst].locked THEN "denied"
    ELSE "copied"

copyfile(f, src, dst) ==
    [f EXCEPT ![dst] = [ex |-> TRUE, locked |-> FALSE, content |-> f[src].content]]

\* the candidates safe_copy's loop passes over before i: all were refused
RECURSIVE Probe(_, _, _)
Probe(f, src, i) ==
    IF i > MaxSuffix
    THEN [result |-> "PermissionError", path |-> NoPath, fs |-> f]
    ELSE LET cand == CandName(src, i)
             got == CopyOutcome(f, src, cand)
         IN IF got = "copied"
            THEN [result |-> "ok", path |-> cand, fs |-> copyfile(f, src, cand)]
            ELSE IF got = "denied" THEN Probe(f, src, i + 1)
            ELSE [result |-> "SameFileError", path |-> NoPath, fs |-> f]

\* a safe_copy that tries the first candidate only
safe_copy_SingleProbe(f, src) ==
    IF ~f[BaseName(src)].ex
    THEN [result |-> "ok", path |-> BaseName(src), fs |-> copyfile(f, src, BaseName(src))]
    ELSE IF CopyOutcome(f, src, CandName(src, 1)) = "copied"
    THEN [result |-> "ok", path |-> CandName(src, 1),
          fs |-> copyfile(f, src, CandName(src, 1))]
    ELSE [result |-> "PermissionError", path |-> NoPath, fs |-> f]

safe_copy(f, src) ==
    LET base == BaseName(src)
    IN IF ~f[base].ex
       THEN IF CopyOutcome(f, src, base) = "copied"
            THEN [result |-> "ok", path |-> base, fs |-> copyfile(f, src, base)]
            ELSE [result |-> "SameFileError", path |-> NoPath, fs |-> f]
       ELSE Probe(f, src, 1)

\* a save that goes to the source instead of the duplicate
SaveTarget_Source(src, outp) == src

\* wb.save(out)
SaveTarget(src, outp) == outp

\* what write_out does once safe_copy has returned c
WriteAfterCopy(f, src, c) ==
    IF c.result # "ok"
    THEN [result |-> c.result, path |-> NoPath, fs |-> f, writes |-> {}]
    ELSE [result |-> "ok", path |-> c.path,
          fs |-> [c.fs EXCEPT ![SaveTarget(src, c.path)].content = "prepared"],
          writes |-> {c.path, SaveTarget(src, c.path)}]

\* write_out: duplicate, rewrite the destination sheet, save.  writes lists
\* the paths written to
write_out(f, src) == The({ WriteAfterCopy(f, src, c) : c \in {safe_copy(f, src)} })

\* the validation of prepare that rejects Monday instead of Sunday
DateError_Monday(wd) ==
    IF wd = 0 THEN "ValueError"
    ELSE IF wd \notin DOMAIN WEEKDAY_RANGE /\ wd # 6 THEN "ValueError"
    ELSE "none"

\* if weekday == 6: raise ValueError; if weekday not in WEEKDAY_RANGE: raise ValueError
DateError(wd) ==
    IF wd = 6 THEN "ValueError"
    ELSE IF wd \notin DOMAIN WEEKDAY_RANGE THEN "ValueError"
    ELSE "none"

\* a prepare that duplicates the source before it validates the date
prepare_CopyFirst(f, src, date) ==
    The({ IF DateError(weekday(date)) # "none"
          THEN [result |-> "ValueError", path |-> NoPath, fs |-> w.fs,
                writes |-> w.writes, letters |-> <<>>]
          ELSE [result |-> w.result, path |-> w.path, fs |-> w.fs, writes |-> w.writes,
                letters |-> IF f[src].ex THEN Letters(weekday(date)) ELSE <<>>] :
          w \in {IF f[src].ex THEN write_out(f, src)
                 ELSE [result |-> "FileNotFoundError", path |-> NoPath,
                       fs |-> f, writes |-> {}]} })

\* prepare(src_path, delivery_date): the outcome, the filesystem it leaves,
\* the paths it wrote to and the column selection it built
prepare(f, src, date) ==
    IF DateError(weekday(date)) # "none"
    THEN [result |-> "ValueError", path |-> NoPath, fs |-> f,
          writes |-> {}, letters |-> <<>>]
    ELSE IF ~f[src].ex
    THEN [result |-> "FileNotFoundError", path |-> NoPath, fs |-> f,
          writes |-> {}, letters |-> <<>>]
    ELSE The({ [result |-> w.result, path |-> w.path, fs |-> w.fs,
                writes |-> w.writes, letters |-> Letters(weekday(date))] :
               w \in {write_out(f, src)} })

-----------------------------------------------------------------------------
(* Spec: prepare invocations, and other processes opening and closing      *)
(* output files, over one directory                                        *)

Init ==
    /\ \E present \in SUBSET SrcNames :
          fs = [n \in Names |->
                  IF n \in present
                  THEN [ex |-> TRUE, locked |-> FALSE, content |-> "inventory"]
                  ELSE NoFile]
    /\ call = NoCall
    /\ df = <<>> /\ out = <<>> /\ stage = "idle"
    /\ ws0 = NoSheet /\ ws = NoSheet /\ nrows = 0

\* one invocation of prepare.  The record keeps what the invocation saw:
\* whether the source and the base name existed, which candidates refused
\* a copy, whether the output path existed, and the source as it was
Prepare(src, date) ==
    \E r \in {prepare(fs, src, date)} :
       /\ fs' = r.fs
       /\ call' = [op |-> "prepare", src |-> src, date |-> date,
                   result |-> r.result, path |-> r.path,
                   writes |-> r.writes, letters |-> r.letters,
                   src_before |-> fs[src],
                   base_existed |-> fs[BaseName(src)].ex,
                   refused |-> { i \in 1..MaxSuffix :
                                   fs[CandName(src, i)].ex /\ fs[CandName(src, i)].locked },
                   out_existed |-> IF r.path = NoPath THEN FALSE ELSE fs[r.path].ex,
                   fs_kept |-> r.fs = fs]
       /\ UNCHANGED <<df, out, stage, ws0, ws, nrows>>

\* another process opens an existing output file: writes to it are refused
Lock(n) ==
    /\ fs[n].ex /\ ~fs[n].locked
    /\ fs' = [fs EXCEPT ![n].locked = TRUE]
    /\ UNCHANGED <<df, out, stage, ws0, ws, nrows, call>>

\* the other process closes it
Unlock(n) ==
    /\ fs[n].ex /\ fs[n].locked
    /\ fs' = [fs EXCEPT ![n].locked = FALSE]
    /\ UNCHANGED <<df, out, stage, ws0, ws, nrows, call>>

Next ==
    \/ \E src \in SrcNames, date \in Dates : Prepare(src, date)
    \/ \E n \in OutNames : Lock(n)
    \/ \E n \in OutNames : Unlock(n)

Spec == Init /\ [][Next]_vars

-----------------------------------------------------------------------------
(* Claims about sort_final *)

\* the key as the claim states it
C1_rank(row) ==
    LET f == row[FlagPos]
        t == IF f.k = "nan" THEN <<>> ELSE AsTypeStr(f)
    IN IF Strip(t) = <<BoxChar>> THEN 3 ELSE 2

C1_sub1(row) ==
    LET t == AsTypeStr(row[NamePos])
    IN IF C1_rank(row) = 3 THEN 3
       ELSE IF t # <<>> /\ t[1] = FilledSquare THEN 0
       ELSE IF t # <<>> /\ t[1] = HollowSquare THEN 1
       ELSE 2

C1_sub2(row) == IF C1_sub1(row) >= 1 THEN AsTypeStr(row[CodePos]) ELSE <<>>

C1_sameKey(a, b) ==
    C1_rank(a) = C1_rank(b) /\ C1_sub1(a) = C1_sub1(b) /\ C1_sub2(a) = C1_sub2(b)

C1_before(a, b) ==
    \/ C1_rank(a) > C1_rank(b)
    \/ C1_rank(a) = C1_rank(b) /\ C1_sub1(a) < C1_sub1(b)
    \/ C1_rank(a) = C1_rank(b) /\ C1_sub1(a) = C1_sub1(b)
         /\ LexLess(C1_sub2(a), C1_sub2(b))

C1_perms(n) == { p \in [1..n -> 1..n] : \A i, j \in 1..n : p[i] = p[j] => i = j }

\* C1: sort_final returns a permutation of its input that is the stable sort
\* by (rank descending, sub1 ascending, sub2 ascending): the output is
\* ordered by the key, rows whose keys are equal keep their source order
\* (so rank-2 rows with sub1 = 0 keep it whatever their codes), and every
\* rank-3 row precedes every rank-2 row.
C1_StableSort ==
    stage = "sorted" =>
        /\ Len(out) = Len(df)
        /\ \E p \in C1_perms(Len(df)) :
              /\ \A i \in 1..Len(df) : out[i] = df[p[i]]
              /\ \A i, j \in 1..Len(df) :
                    i < j => /\ ~C1_before(out[j], out[i])
                             /\ C1_sameKey(out[i], out[j]) => p[i] < p[j]
        /\ \A i, j \in 1..Len(out) :
              C1_rank(out[i]) = 3 /\ C1_rank(out[j]) = 2 => i < j

\* a sorted table in which a box row was moved in front of an earlier
\* non-box row, two filled-square rows with descending codes kept their
\* source order, and the sort changed the order
C1_Witness ==
    /\ stage = "sorted"
    /\ Len(df) = MaxRows
    /\ out # df
    /\ C1_rank(df[1]) = 2 /\ C1_rank(out[1]) = 3
    /\ \E i, j \in 1..Len(df) :
          /\ i < j
          /\ C1_sub1(df[i]) = 0 /\ C1_sub1(df[j]) = 0
          /\ LexLess(AsTypeStr(df[j][CodePos]), AsTypeStr(df[i][CodePos]))

-----------------------------------------------------------------------------
(* Claims about the zero-filter *)

C3_kept(i) == \E k \in 1..Len(out) : out[k].idx = i

C3_isZero(c) == c = Num(0)

\* C3: a row is excluded by the zero-filter iff its 5th and its 7th column
\* are both 0; the rows kept stay in order and unchanged, and whether a row
\* is dropped is decided by those two fields alone.
C3_ZeroFilter ==
    stage = "filtered" =>
        /\ \A i \in 1..Len(df) :
              C3_kept(i) <=> ~(C3_isZero(df[i][5]) /\ C3_isZero(df[i][7]))
        /\ \A k \in 1..Len(out) :
              /\ out[k].idx \in 1..Len(df)
              /\ out[k].row = df[out[k].idx]
              /\ \A m \in 1..Len(out) : k < m => out[k].idx < out[m].idx
        /\ \A i, j \in 1..Len(df) :
              df[i][5] = df[j][5] /\ df[i][7] = df[j][7]
                  => (C3_kept(i) <=> C3_kept(j))

\* a filtered table with a dropped row (both zero), a kept row whose 5th
\* column alone is zero and a kept row whose 7th column alone is zero
C3_Witness ==
    /\ stage = "filtered"
    /\ \E i, j, k \in 1..Len(df) :
          /\ df[i][5] = Num(0) /\ df[i][7] = Num(0) /\ ~C3_kept(i)
          /\ df[j][5] = Num(0) /\ df[j][7] # Num(0) /\ C3_kept(j)
          /\ df[k][5] # Num(0) /\ df[k][7] = Num(0) /\ C3_kept(k)

-----------------------------------------------------------------------------
(* Claims about the destination sheet *)

\* C8: after write_out of a table of n rows the print area is A1:M{r} with
\* r = DATA_START_ROW_DST + n - 1, for every n (A1:M4 for n = 0), whatever
\* the sheet's previous end row and previous print area.
C8_PrintArea ==
    stage = "written" =>
        ws.print_area = [c1 |-> 1, r1 |-> 1, c2 |-> 13, r2 |-> 5 + nrows - 1]

\* a written sheet whose previous end lay below the last written row, and
\* whose print area changed
C8_Witness ==
    /\ stage = "written"
    /\ nrows >= 1
    /\ max_row(ws0) > 5 + nrows - 1
    /\ ws0.print_area.r2 > ws.print_area.r2

C9_below(n, mr, mc) ==
    { g \in Rows \X Cols : g[1] >= 5 + n /\ g[1] <= mr /\ g[2] <= mc }

\* C9: after paste_df has written n rows from row 5, every cell of every row
\* from 5 + n through the sheet's end (ws.max_row) holds no value and no
\* style, and the height of each such row is reset; the same holds of the
\* sheet write_out saves.
C9_TrailingCleared ==
    stage \in {"pasted", "written"} =>
        \A mr \in {max_row(ws)}, mc \in {max_column(ws)} :
            /\ \A g \in C9_below(nrows, mr, mc) :
                  /\ ws.cells[g[1]][g[2]].v = [t |-> "none", r |-> 0]
                  /\ ws.cells[g[1]][g[2]].ex => ws.cells[g[1]][g[2]].st = "cleared"
                  /\ ~ws.cells[g[1]][g[2]].ex => ws.cells[g[1]][g[2]].st = "default"
                  /\ ws.height[g[1]] = "none"
            /\ \A r \in Rows, c \in Cols :
                  r >= 5 + nrows => ws.cells[r][c].v = [t |-> "none", r |-> 0]

\* fewer rows were pasted than the template held: stale values, styles and
\* a stale row height lay below the last written row
C9_Witness ==
    /\ stage = "pasted"
    /\ nrows >= 1
    /\ \E mr \in {max_row(ws)}, mc \in {max_column(ws)} :
          \E g \in C9_below(nrows, mr, mc) :
              /\ ws0.cells[g[1]][g[2]].v.t = "old"
              /\ ws0.cells[g[1]][g[2]].st = "old"
              /\ ws0.height[g[1]] = "old"

-----------------------------------------------------------------------------
(* Claims about prepare *)

\* the calendar: the weekday of each delivery date drawn (Monday = 0)
Calendar(d) ==
    CASE d = <<2024, 2, 26>> -> 0
      [] d = <<2024, 2, 27>> -> 1
      [] d = <<2024, 2, 28>> -> 2
      [] d = <<2024, 2, 29>> -> 3
      [] d = <<2024, 3, 1>> -> 4
      [] d = <<2024, 3, 2>> -> 5
      [] d = <<2024, 3, 3>> -> 6
      [] d = <<2025, 7, 2>> -> 2
      [] d = <<2026, 11, 1>> -> 6

\* the weekday blocks of the inventory sheet, column by column
C2_block(wd) ==
    CASE wd = 0 -> << <<72>>, <<73>>, <<74>>, <<75>>, <<76>>, <<77>> >>
      [] wd = 1 -> << <<77>>, <<78>>, <<79>>, <<80>>, <<81>>, <<82>> >>
      [] wd = 2 -> << <<82>>, <<83>>, <<84>>, <<85>>, <<86>>, <<87>> >>
      [] wd = 3 -> << <<87>>, <<88>>, <<89>>, <<90>>, <<65, 65>>, <<65, 66>> >>
      [] wd = 4 -> << <<65, 66>>, <<65, 67>>, <<65, 68>>, <<65, 69>>, <<65, 70>>, <<65, 71>> >>
      [] wd = 5 -> << <<65, 71>>, <<65, 72>>, <<65, 73>>, <<65, 74>>, <<65, 75>>, <<65, 76>> >>

C2_selected == call.op = "prepare" /\ call.result \notin {"ValueError", "FileNotFoundError"}

\* C2 as stated: the selection is 4 fixed columns followed by a weekday
\* range of exactly 5 columns, 9 columns in total.
C2_FiveColumnRange ==
    C2_selected =>
        /\ Len(call.letters) = 9
        /\ SubSeq(call.letters, 1, 4) = << <<65>>, <<66>>, <<65, 78>>, <<65, 81>> >>
        /\ Len(call.letters) - 4 = 5

\* C2 amended: for every Monday-to-Saturday date the selection is the 4
\* fixed columns A, B, AN, AQ followed by the weekday range with both of its
\* end columns, which is exactly 6 columns: 10 columns in total.
C2_SixColumnRange ==
    C2_selected =>
        /\ Len(call.letters) = 10
        /\ SubSeq(call.letters, 1, 4) = << <<65>>, <<66>>, <<65, 78>>, <<65, 81>> >>
        /\ SubSeq(call.letters, 5, Len(call.letters)) = C2_block(Calendar(call.date))

\* a Thursday selection, whose range runs from W over Z to AB
C2_Witness ==
    /\ C2_selected
    /\ call.result = "ok"
    /\ Calendar(call.date) = 3
    /\ call.letters[10] = <<65, 66>>

C4_cand(i) == <<"foo", "_prepared", "(" \o ToString(i) \o ")", ".xlsm">>

C4_free == (1..MaxSuffix) \ call.refused

\* C4: when <stem>_prepared.xlsm already exists, safe_copy returns the
\* lowest-numbered candidate <stem>_prepared(N).xlsm whose creation was not
\* refused, every candidate below N having been refused; when every
\* candidate is refused it fails with PermissionError and returns no path.
\* The candidates are 1..MaxSuffix here, 1..99 in the program.
C4_FirstFreeCandidate ==
    (C2_selected /\ call.base_existed) =>
        IF C4_free = {}
        THEN call.result = "PermissionError" /\ call.path = <<>>
        ELSE /\ call.result = "ok"
             /\ \E n \in C4_free :
                   /\ \A m \in 1..(n - 1) : m \in call.refused
                   /\ call.path = C4_cand(n)

\* the base name existed, the first candidate was held open elsewhere, and
\* the copy went to the second
C4_Witness ==
    /\ C2_selected /\ call.base_existed
    /\ call.refused = {1}
    /\ call.path = C4_cand(2)
    /\ fs[<<"foo", "_prepared", ".xlsm">>].locked

\* C5: every successful invocation creates its output at a name that did
\* not exist before the invocation.
C5_NeverOverwrites ==
    (call.op = "prepare" /\ call.result = "ok") => ~call.out_existed

\* C6: no invocation of prepare, successful or failing, writes to its
\* source: every path copied to or saved to differs from the source path,
\* and the source file is afterwards what it was before.
C6_SourceUntouched ==
    call.op = "prepare" =>
        /\ call.src \notin call.writes
        /\ fs[call.src] = call.src_before

\* a successful invocation that wrote the duplicate, next to the source
C6_Witness ==
    /\ call.op = "prepare" /\ call.result = "ok"
    /\ call.writes # {}
    /\ fs[call.path].content = "prepared"
    /\ fs[call.src].content = "inventory"

C10_FailsBeforeWriting ==
    call.op = "prepare" =>
        /\ call.result \in {"ValueError", "FileNotFoundError"} =>
              call.fs_kept /\ call.writes = {}
        /\ (Calendar(call.date) = 6 /\ ~call.src_before.ex) =>
              call.result = "ValueError"

\* a Sunday invocation on a missing source, with an earlier output on disk
C10_Witness ==
    /\ call.op = "prepare"
    /\ Calendar(call.date) = 6
    /\ ~call.src_before.ex
    /\ call.result = "ValueError"
    /\ \E n \in OutNames : fs[n].ex

=============================================================================
